---- MODULE Spec2Model ----
(***************************************************************************)
(* Session handling of the Resonance Spotify client: the PKCE handshake    *)
(* (initiateAuth, the OAuth callback, exchangeCodeForToken, storeToken),    *)
(* the credential kept in localStorage (getStoredToken, refreshAccessToken, *)
(* clearToken) and the dashboard requests that read it.                     *)
(*                                                                          *)
(* The browser runs one handler to completion at a time: an action is the   *)
(* synchronous part of a handler up to its next network await, or the       *)
(* continuation that runs when the awaited response arrives.                *)
(***************************************************************************)
EXTENDS Integers, Sequences, FiniteSets

\* ------------------------------------------------------------------ bounds

\* Last second of the modelled clock.
MaxTime == 3
\* Largest expires_in (seconds) a token response carries; 0 is "not provided".
MaxExpiresIn == 1
\* Number of distinct access token values the token endpoint issues.
MaxToken == 2
\* Number of distinct refresh token values the token endpoint issues.
MaxRefreshToken == 1
\* Number of distinct code verifiers generateRandomString can yield.
MaxVerifier == 2

\* --------------------------------------------------------------- constants

\* Date.now() is in milliseconds, expires_in in seconds.
MsPerSecond == 1000
\* exchangeCodeForToken rejects codes shorter than this.
MinCodeLength == 10

\* localStorage.getItem(...) === null for a token or verifier key.
NULL == 0
\* localStorage.getItem('spotify_token_expires') yielding nothing usable: the
\* code tests the string for truthiness, so null and '' are alike.
NoItem == << >>
\* parseInt of a string with no leading digits.
NaN == -1

Tokens == 1..MaxToken
RefreshTokens == 1..MaxRefreshToken
Verifiers == 1..MaxVerifier
\* expires_in of a token response: 0 stands for a missing (or zero) field,
\* both falsy in `if (data.expires_in)`.
ExpiresIns == 0..MaxExpiresIn

\* The two requests Dashboard.loadData issues together in Promise.all.
Callers == {"user", "feature"}
\* The runs of the Callback effect for one page load: the effect depends on
\* [onSuccess] and runs again when the component is handed a new onSuccess.
Callbacks == {"first", "second"}

\* ------------------------------------------------- strings and conversions

DigitChars == <<"0", "1", "2", "3", "4", "5", "6", "7", "8", "9">>

\* Number.prototype.toString for a non-negative integer.
RECURSIVE ToString(_)
ToString(n) ==
    IF n < 10 THEN <<DigitChars[n + 1]>>
    ELSE ToString(n \div 10) \o <<DigitChars[(n % 10) + 1]>>

DigitValue(ch) == CHOOSE d \in 0..9 : DigitChars[d + 1] = ch
IsDigit(ch) == \E d \in 0..9 : DigitChars[d + 1] = ch

RECURSIVE ParseDigits(_, _)
ParseDigits(s, acc) ==
    IF s = << >> \/ ~IsDigit(Head(s)) THEN acc
    ELSE ParseDigits(Tail(s), acc * 10 + DigitValue(Head(s)))

\* parseInt(s): the leading decimal digits of s, NaN when there are none.
ParseInt(s) ==
    IF s = << >> \/ ~IsDigit(Head(s)) THEN NaN ELSE ParseDigits(s, 0)

\* Characters a redirect parameter is built from in this model: "a" stands
\* for the characters of the authorization-code alphabet, "!" for one
\* outside it, "<" and ">" delimit an HTML tag.
CodeAlphabet == {"a"}

\* Position of the first ">" of s at or after position i, 0 if none.
RECURSIVE FirstClose(_, _)
FirstClose(s, i) ==
    IF i > Len(s) THEN 0
    ELSE IF s[i] = ">" THEN i
    ELSE FirstClose(s, i + 1)

\* param.replace(/<[^>]*>/g, ''): every "<" that has a ">" after it is
\* removed together with everything up to the first such ">".
RECURSIVE StripTags(_)
StripTags(s) ==
    IF s = << >> THEN << >>
    ELSE IF Head(s) = "<" /\ FirstClose(s, 2) # 0
         THEN StripTags(SubSeq(s, FirstClose(s, 2) + 1, Len(s)))
         ELSE <<Head(s)>> \o StripTags(Tail(s))

\* sanitizeParam of the Callback page; a missing parameter (null) and an
\* empty one are both falsy and both written << >>.
sanitizeParam(param) == IF param = << >> THEN << >> ELSE StripTags(param)

\* The regular expression of validateSpotifyAuthCode.
InAlphabet(code) == \A i \in 1..Len(code) : code[i] \in CodeAlphabet

\* A code long enough to pass exchangeCodeForToken's length check.
Pad == [i \in 1..MinCodeLength |-> "a"]

CodeTails == { << >>, <<"!">>, <<"<", "a", ">">>, <<"<", "a">> }

\* Values of the `code` query parameter; << >> is "no code parameter".
Codes == CodeTails \cup { Pad \o t : t \in CodeTails }

\* Values of the `error` query parameter; << >> is "no error parameter".
ErrorParams == { << >>, <<"a">>, <<"<", "a", ">">> }

\* The query strings the callback page is loaded with: every code without an
\* error, and every error without a code and with a well-formed code.
Urls ==
    { [code |-> c, error |-> << >>] : c \in Codes \ {<< >>} }
    \cup { [code |-> c, error |-> e] : c \in {<< >>, Pad}, e \in ErrorParams \ {<< >>} }

NoUrl == [code |-> << >>, error |-> << >>]

\* ----------------------------------------------------------------- messages

MsgAuthorizationFailed == "Authorization failed"
MsgNoCode == "No authorization code received"
MsgInvalidCode == "Invalid authorization code"
MsgNoVerifier == "Code verifier not found"
MsgExchangeFailed == "Failed to exchange code for token"
MsgNetwork == "Failed to fetch"

\* The error kinds of the specification, by the message the code raises.
ErrorKind(msg) ==
    CASE msg = MsgAuthorizationFailed -> "AuthorizationDenied"
      [] msg = MsgNoCode -> "InvalidCode"
      [] msg = MsgInvalidCode -> "InvalidCode"
      [] msg = MsgNoVerifier -> "NoPendingHandshake"
      [] msg = MsgExchangeFailed -> "ExchangeFailed"
      [] msg = MsgNetwork -> "ExchangeFailed"
      [] OTHER -> "none"

\* -------------------------------------------------------------------- state

VARIABLES
    store,      \* localStorage: access token, expiry, refresh token, verifier
    now,        \* Date.now()
    page,       \* the document shown: "app", "spotify" (left for the
                \* authorization page) or "callback"
    url,        \* window.location.search of the callback page
    authorize,  \* code_challenge of the last authorization request, NULL if none
    call,       \* per dashboard request: its getStoredToken call
    cb,         \* per run of the Callback effect: its handleCallback call
    req,        \* per dashboard request: its makeSpotifyRequest call
    probe,      \* a pure function under test: its input and its output
    initiate,   \* the initiateAuth calls of this document
    sync,       \* the last getStoredTokenSync call of this document
    dash        \* the last run of the catch block of the dashboard's loadData

\* The state beyond the session module's own.
ext == <<req, probe, initiate, sync, dash>>

vars == <<store, now, page, url, authorize, call, cb, ext>>

EmptyStore == [access |-> NULL, expires |-> NoItem, refresh |-> NULL, verifier |-> NULL]

IdleCall == [pc |-> "idle", callTime |-> 0, result |-> NULL, log |-> "none",
             loggedOut |-> FALSE, raced |-> FALSE]

NoRequest == [code |-> << >>, code_verifier |-> NULL]

IdleCb == [pc |-> "idle", msg |-> "none", request |-> NoRequest, token |-> NULL]

\* What a thrown Error carries: `new Error(message)` has a message and
\* neither a status nor a retry-after property.
NoError == [message |-> "none", status |-> NULL, retryAfter |-> NULL]

\* No upstream response received.
NoResponse == [status |-> NULL, retryAfter |-> NULL, body |-> "none"]

IdleReq == [pc |-> "idle", bearer |-> NULL, sent |-> 0, refreshes |-> 0,
            response |-> NoResponse, error |-> NoError]

\* No initiateAuth call awaits its digest, none has assigned
\* window.location.href.
IdleInitiate == [pending |-> {}, leaving |-> FALSE, issued |-> 0]

IdleSync == [pc |-> "idle", result |-> NULL]

\* loadData has caught no error.
IdleDash == [caught |-> "none", loggedOut |-> FALSE]

\* ------------------------------------------------------- storage operations

\* A clearToken that leaves the refresh token behind.
clearTokenKeepsRefresh(s) ==
    [access |-> NULL, expires |-> NoItem, refresh |-> s.refresh, verifier |-> NULL]

\* clearToken: removes all four keys.
clearToken(s) ==
    [access |-> NULL, expires |-> NoItem, refresh |-> NULL, verifier |-> NULL]

\* storeToken(token)
storeToken(s, token) == [s EXCEPT !.access = token]

\* Date.now() + data.expires_in * 1000, as written to localStorage.
expirationTime(t, expires_in) == ToString(t + expires_in * MsPerSecond)

\* The writes of exchangeCodeForToken after a 2xx response: the verifier is
\* removed, the expiry and the refresh token are written only if provided.
\* The access token is not written here; it is returned to the caller.
exchangeStore(s, data, t) ==
    [s EXCEPT !.verifier = NULL,
              !.expires = IF data.expires_in # 0
                          THEN expirationTime(t, data.expires_in) ELSE @,
              !.refresh = IF data.refresh_token # NULL
                          THEN data.refresh_token ELSE @]

\* The writes of refreshAccessToken after a 2xx response.
refreshStore(s, data, t) ==
    [s EXCEPT !.access = data.access_token,
              !.expires = IF data.expires_in # 0
                          THEN expirationTime(t, data.expires_in) ELSE @,
              !.refresh = IF data.refresh_token # NULL
                          THEN data.refresh_token ELSE @]

\* getStoredToken's test `expirationTime && now >= parseInt(expirationTime)`;
\* a comparison with NaN is false.
isExpired(s, t) ==
    /\ s.expires # NoItem
    /\ ParseInt(s.expires) # NaN
    /\ t >= ParseInt(s.expires)

\* The structured payloads the token endpoint may answer with.
TokenResponses ==
    [access_token : Tokens, expires_in : ExpiresIns, refresh_token : RefreshTokens \cup {NULL}]

\* code_challenge = base64url(SHA-256(verifier)): a value determined by the
\* verifier and different from it, one per verifier.
codeChallenge(v) == 0 - v

\* ------------------------------------------------------------------ actions

\* handleCallback is between the return of exchangeCodeForToken and its own
\* storeToken: both run in one microtask checkpoint, so no other handler
\* runs in between.
MicrotaskPending == \E k \in Callbacks : cb[k].pc = "exchanged"

AllIdleCalls == [c \in Callers |-> IdleCall]
AllIdleCbs == [k \in Callbacks |-> IdleCb]
AllIdleReqs == [c \in Callers |-> IdleReq]

\* The document is unloaded: every request in flight ends with it.
Unload ==
    /\ req' = AllIdleReqs
    /\ initiate' = IdleInitiate
    /\ sync' = IdleSync
    /\ dash' = IdleDash
    /\ UNCHANGED probe

\* No pure function is under test.
NoProbe == [in |-> NULL, out |-> "none"]

InitSession ==
    /\ store = EmptyStore
    /\ now = MsPerSecond
    /\ page = "app"
    /\ url = NoUrl
    /\ authorize = NULL
    /\ call = AllIdleCalls
    /\ cb = AllIdleCbs
    /\ req = AllIdleReqs
    /\ initiate = IdleInitiate
    /\ sync = IdleSync
    /\ dash = IdleDash

Init == InitSession /\ probe = NoProbe

\* One second passes.
Tick ==
    /\ ~MicrotaskPending
    /\ now + MsPerSecond <= MaxTime * MsPerSecond
    /\ now' = now + MsPerSecond
    /\ UNCHANGED <<store, page, url, authorize, call, cb>>
    /\ UNCHANGED ext

\* initiateAuth: stores a fresh verifier and navigates to the authorization
\* page; leaving the document ends every call in flight.
\* An initiateAuth that keeps a verifier already stored.
initiateStoreKeepsFirst(s, v) ==
    IF s.verifier # NULL THEN s ELSE [s EXCEPT !.verifier = v]

\* localStorage.setItem('code_verifier', codeVerifier)
initiateStore(s, v) == [s EXCEPT !.verifier = v]

initiateAuth(v) ==
    /\ ~MicrotaskPending
    /\ page = "app"
    /\ store' = initiateStore(store, v)
    /\ authorize' = codeChallenge(v)
    /\ page' = "spotify"
    /\ url' = NoUrl
    /\ call' = AllIdleCalls
    /\ cb' = AllIdleCbs
    /\ UNCHANGED now
    /\ Unload

\* The browser loads the callback page: the redirect from the authorization
\* page, or a stale, replayed or crafted callback URL opened directly.
LoadCallback(u) ==
    /\ ~MicrotaskPending
    /\ page # "callback"
    /\ page' = "callback"
    /\ url' = u
    /\ call' = AllIdleCalls
    /\ cb' = AllIdleCbs
    /\ UNCHANGED <<store, now, authorize>>
    /\ Unload

\* The browser loads the application at "/": the Try Again button of the
\* callback page, or the user returning from the authorization page.
OpenApp ==
    /\ ~MicrotaskPending
    /\ page # "app"
    /\ page' = "app"
    /\ url' = NoUrl
    /\ call' = AllIdleCalls
    /\ cb' = AllIdleCbs
    /\ UNCHANGED <<store, now, authorize>>
    /\ Unload

\* The outcome of the synchronous part of handleCallback, up to the fetch of
\* exchangeCodeForToken: the callback record after it.
handleCallback(u, s) ==
    LET sanitizedCode == sanitizeParam(u.code)
        sanitizedError == sanitizeParam(u.error)
        fail(m) == [pc |-> "failed", msg |-> m, request |-> NoRequest, token |-> NULL]
    IN  IF sanitizedError # << >> THEN fail(MsgAuthorizationFailed)
        ELSE IF sanitizedCode = << >> THEN fail(MsgNoCode)
        ELSE IF Len(sanitizedCode) < MinCodeLength THEN fail(MsgInvalidCode)
        ELSE IF s.verifier = NULL THEN fail(MsgNoVerifier)
        ELSE [pc |-> "exchanging", msg |-> "none",
              request |-> [code |-> sanitizedCode, code_verifier |-> s.verifier],
              token |-> NULL]

\* The Callback effect runs handleCallback.
HandleCallback(k) ==
    /\ ~MicrotaskPending
    /\ page = "callback"
    /\ cb[k].pc = "idle"
    /\ cb' = [cb EXCEPT ![k] = handleCallback(url, store)]
    /\ UNCHANGED <<store, now, page, url, authorize, call>>
    /\ UNCHANGED ext

\* The token endpoint answers the exchange with a non-2xx status.
ExchangeNotOk(k) ==
    /\ ~MicrotaskPending
    /\ cb[k].pc = "exchanging"
    /\ cb' = [cb EXCEPT ![k] = [pc |-> "failed", msg |-> MsgExchangeFailed,
                                request |-> NoRequest, token |-> NULL]]
    /\ UNCHANGED <<store, now, page, url, authorize, call>>
    /\ UNCHANGED ext

\* The exchange fetch rejects (network error).
ExchangeNetworkError(k) ==
    /\ ~MicrotaskPending
    /\ cb[k].pc = "exchanging"
    /\ cb' = [cb EXCEPT ![k] = [pc |-> "failed", msg |-> MsgNetwork,
                                request |-> NoRequest, token |-> NULL]]
    /\ UNCHANGED <<store, now, page, url, authorize, call>>
    /\ UNCHANGED ext

\* The token endpoint answers the exchange with 2xx and a payload.
ExchangeOk(k, data) ==
    /\ ~MicrotaskPending
    /\ cb[k].pc = "exchanging"
    /\ store' = exchangeStore(store, data, now)
    /\ cb' = [cb EXCEPT ![k] = [pc |-> "exchanged", msg |-> "none",
                                request |-> NoRequest, token |-> data.access_token]]
    /\ UNCHANGED <<now, page, url, authorize, call>>
    /\ UNCHANGED ext

\* handleCallback continues after the exchange: storeToken(token), then
\* onSuccess(), on which the application leaves the callback page: the
\* Callback component is unmounted and what its other runs displayed is gone,
\* but an exchange still in flight runs on.
StoreToken(k) ==
    /\ cb[k].pc = "exchanged"
    /\ store' = storeToken(store, cb[k].token)
    /\ cb' = [j \in Callbacks |->
                IF j = k THEN [IdleCb EXCEPT !.pc = "done"]
                ELSE IF cb[j].pc = "exchanging" THEN cb[j]
                ELSE IdleCb]
    /\ page' = "app"
    /\ url' = NoUrl
    /\ UNCHANGED <<now, authorize, call>>
    /\ UNCHANGED ext

\* The outcome of the synchronous part of getStoredToken, including the part
\* of refreshAccessToken before its fetch: the call record after it.
getStoredToken(s, t) ==
    LET ret(v, l) == [pc |-> "done", callTime |-> 0, result |-> v, log |-> l,
                      loggedOut |-> FALSE, raced |-> FALSE]
    IN  IF s.access = NULL THEN ret(NULL, "no token")
        ELSE IF isExpired(s, t)
             THEN IF s.refresh = NULL
                  THEN ret(NULL, "No refresh token available")
                  ELSE [pc |-> "refreshing", callTime |-> t, result |-> NULL,
                        log |-> "Refreshing access token",
                        loggedOut |-> FALSE, raced |-> FALSE]
             ELSE ret(s.access, "stored token")

\* A dashboard request asks for the credential.
GetStoredToken(c) ==
    /\ ~MicrotaskPending
    /\ page = "app"
    /\ call[c].pc \in {"idle", "done"}
    /\ req[c].pc # "fetching"
    /\ call' = [call EXCEPT ![c] = getStoredToken(store, now)]
    /\ UNCHANGED <<store, now, page, url, authorize, cb>>
    /\ UNCHANGED ext

\* The token endpoint answers the refresh with a non-2xx status.
RefreshNotOk(c) ==
    /\ ~MicrotaskPending
    /\ call[c].pc = "refreshing"
    /\ store' = clearToken(store)
    /\ call' = [call EXCEPT ![c] = [IdleCall EXCEPT !.pc = "done",
                                                      !.log = "Token refresh failed"]]
    /\ UNCHANGED <<now, page, url, authorize, cb>>
    /\ UNCHANGED ext

\* The refresh fetch rejects (network error).
RefreshNetworkError(c) ==
    /\ ~MicrotaskPending
    /\ call[c].pc = "refreshing"
    /\ store' = clearToken(store)
    /\ call' = [call EXCEPT ![c] = [IdleCall EXCEPT !.pc = "done",
                                                      !.log = "Token refresh error"]]
    /\ UNCHANGED <<now, page, url, authorize, cb>>
    /\ UNCHANGED ext

\* The token endpoint answers the refresh with 2xx and a payload.
RefreshOk(c, data) ==
    /\ ~MicrotaskPending
    /\ call[c].pc = "refreshing"
    /\ store' = refreshStore(store, data, now)
    /\ call' = [d \in Callers |->
                  IF d = c
                  THEN [IdleCall EXCEPT !.pc = "done", !.result = data.access_token,
                                        !.log = "Successfully refreshed access token"]
                  ELSE IF call[d].pc = "refreshing"
                       THEN [call[d] EXCEPT !.raced = TRUE]
                       ELSE call[d]]
    /\ UNCHANGED <<now, page, url, authorize, cb>>
    /\ UNCHANGED ext

\* handleLogout of the dashboard: clearToken(), then onLogout().  A refresh
\* in flight is not aborted; it is marked as overtaken by the logout.
Logout ==
    /\ ~MicrotaskPending
    /\ page = "app"
    /\ store' = clearToken(store)
    /\ call' = [c \in Callers |->
                  IF call[c].pc = "refreshing"
                  THEN [call[c] EXCEPT !.loggedOut = TRUE]
                  ELSE call[c]]
    /\ UNCHANGED <<now, page, url, authorize, cb>>
    /\ UNCHANGED ext

\* ------------------------------------------------------------------ gateway

MsgNoToken == "No access token available"
MsgUnauthorized == "Token expired or invalid"
MsgForbidden == "Access forbidden - insufficient permissions"
MsgRateLimited == "Rate limit exceeded - please try again later"
MsgRequestFailed == "Failed to fetch data from Spotify"
MsgSyntaxError == "SyntaxError: Unexpected token"

\* The error kinds of the gateway, by the message the code throws; the
\* SyntaxError of response.json() and the TypeError of fetch are thrown as
\* they come.
GatewayKind(msg) ==
    CASE msg = MsgNoToken -> "Unauthorized"
      [] msg = MsgUnauthorized -> "Unauthorized"
      [] msg = MsgForbidden -> "Forbidden"
      [] msg = MsgRateLimited -> "RateLimited"
      [] msg = MsgRequestFailed -> "Transient"
      [] OTHER -> "unclassified"

\* response.ok: the status is in the range 200-299.
OkMin == 200
OkMax == 299
responseOk(status) == OkMin <= status /\ status <= OkMax

\* A classification that takes 403 for 401.
classifyForbiddenAsUnauthorized(status) ==
    IF responseOk(status) THEN "none"
    ELSE IF status = 401 \/ status = 403 THEN MsgUnauthorized
    ELSE IF status = 429 THEN MsgRateLimited
    ELSE MsgRequestFailed

\* The message makeSpotifyRequest throws for a response status, "none" for
\* a response it accepts.
classify(status) ==
    IF responseOk(status) THEN "none"
    ELSE IF status = 401 THEN MsgUnauthorized
    ELSE IF status = 403 THEN MsgForbidden
    ELSE IF status = 429 THEN MsgRateLimited
    ELSE MsgRequestFailed

\* The statuses the upstream answers with in this model.
Statuses == {200, 401, 403, 429, 500}

\* Upstream responses: a Retry-After header comes with 429 only, and only a
\* 2xx body is read.
Responses ==
    { [status |-> st, retryAfter |-> NULL, body |-> "none"] :
        st \in { x \in Statuses : ~responseOk(x) } }
    \cup { [status |-> 429, retryAfter |-> 1, body |-> "none"] }
    \cup { [status |-> st, retryAfter |-> NULL, body |-> b] :
             st \in { x \in Statuses : responseOk(x) }, b \in {"json", "invalid"} }

\* The getStoredToken call made a refresh exchange.
refreshed(cl) ==
    cl.log \in {"Successfully refreshed access token", "Token refresh failed",
                "Token refresh error"}

\* A makeSpotifyRequest that sends the request without a token.
makeSpotifyRequestWithoutToken(cl) ==
    [IdleReq EXCEPT !.pc = "fetching", !.bearer = cl.result, !.sent = 1,
                    !.refreshes = IF refreshed(cl) THEN 1 ELSE 0]

\* makeSpotifyRequest after `await getStoredToken()`, up to its fetch: the
\* request record, given the finished getStoredToken call.
makeSpotifyRequest(cl) ==
    IF cl.result = NULL
    THEN [IdleReq EXCEPT !.pc = "failed", !.error.message = MsgNoToken,
                         !.refreshes = IF refreshed(cl) THEN 1 ELSE 0]
    ELSE [IdleReq EXCEPT !.pc = "fetching", !.bearer = cl.result, !.sent = 1,
                         !.refreshes = IF refreshed(cl) THEN 1 ELSE 0]

\* A makeSpotifyRequest that sends the request again after a non-2xx answer.
respondRetries(r, resp) ==
    IF ~responseOk(resp.status)
    THEN [r EXCEPT !.sent = @ + 1, !.response = resp]
    ELSE [r EXCEPT !.pc = "ok", !.response = resp]

\* makeSpotifyRequest after its fetch resolved: the request record.
respond(r, resp) ==
    IF ~responseOk(resp.status)
    THEN [r EXCEPT !.pc = "failed", !.response = resp,
                   !.error.message = classify(resp.status)]
    ELSE IF resp.body # "json"
         THEN [r EXCEPT !.pc = "failed", !.response = resp,
                        !.error.message = MsgSyntaxError]
         ELSE [r EXCEPT !.pc = "ok", !.response = resp]

\* A gateway that clears the session when the upstream answers 401.
sessionAfterResponseClearsOn401(s, resp) ==
    IF resp.status = 401 THEN clearToken(s) ELSE s

\* What makeSpotifyRequest does to localStorage once its fetch resolved:
\* nothing.
sessionAfterResponse(s, resp) == s

\* makeSpotifyRequest continues after getStoredToken returned.
MakeSpotifyRequest(c) ==
    /\ ~MicrotaskPending
    /\ call[c].pc = "done"
    /\ req[c].pc # "fetching"
    /\ req' = [req EXCEPT ![c] = makeSpotifyRequest(call[c])]
    /\ call' = [call EXCEPT ![c] = IdleCall]
    /\ UNCHANGED <<store, now, page, url, authorize, cb, probe, initiate, sync, dash>>

\* The upstream answers the data request.
GatewayResponse(c, resp) ==
    /\ ~MicrotaskPending
    /\ req[c].pc = "fetching"
    /\ req' = [req EXCEPT ![c] = respond(req[c], resp)]
    /\ store' = sessionAfterResponse(store, resp)
    /\ UNCHANGED <<now, page, url, authorize, call, cb, probe, initiate, sync, dash>>

\* The data fetch rejects (network error).
GatewayNetworkError(c) ==
    /\ ~MicrotaskPending
    /\ req[c].pc = "fetching"
    /\ req' = [req EXCEPT ![c].pc = "failed", ![c].error.message = MsgNetwork]
    /\ UNCHANGED <<store, now, page, url, authorize, call, cb, probe, initiate, sync, dash>>

\* The steps of makeSpotifyRequest for the dashboard requests `cs`.
GatewayStep(cs) ==
    \/ \E c \in cs : MakeSpotifyRequest(c)
    \/ \E c \in cs, resp \in Responses : GatewayResponse(c, resp)
    \/ \E c \in cs : GatewayNetworkError(c)

\* The steps of the program when the Callback effect runs for `runs` and the
\* dashboard issues the requests `cs`.
StepFor(runs, cs) ==
    \/ Tick
    \/ \E v \in Verifiers : initiateAuth(v)
    \/ \E u \in Urls : LoadCallback(u)
    \/ OpenApp
    \/ \E k \in runs : HandleCallback(k)
    \/ \E k \in runs : ExchangeNotOk(k)
    \/ \E k \in runs : ExchangeNetworkError(k)
    \/ \E k \in runs, data \in TokenResponses : ExchangeOk(k, data)
    \/ \E k \in runs : StoreToken(k)
    \/ \E c \in cs : GetStoredToken(c)
    \/ \E c \in cs : RefreshNotOk(c)
    \/ \E c \in cs : RefreshNetworkError(c)
    \/ \E c \in cs, data \in TokenResponses : RefreshOk(c, data)
    \/ Logout

\* The steps of the program when the Callback effect runs for `runs`.
Step(runs) == StepFor(runs, Callers)

\* The Callback effect runs once per page load.
Next == Step({"first"})

\* The Callback effect runs again while its first run is under way.
NextRerun == Step(Callbacks)

Spec == Init /\ [][Next]_vars

SpecRerun == Init /\ [][NextRerun]_vars

\* The session together with one gateway request of the dashboard at a time.
NextGateway == StepFor({"first"}, {"user"}) \/ GatewayStep({"user"})

SpecGateway == Init /\ [][NextGateway]_vars

\* ---------------------------------------------------------------- dashboard

\* String.prototype.includes on the messages the requests can fail with.
includes(msg, needle) ==
    <<msg, needle>> \in {<<MsgUnauthorized, "Token expired">>,
                         <<MsgForbidden, "Access forbidden">>}

\* The test of loadData's catch block before handleLogout().
logsOut(msg) == includes(msg, "Token expired") \/ includes(msg, "Access forbidden")

\* The catch block of loadData for the failed request c: the message is
\* shown, and handleLogout (clearToken, onLogout) runs for two messages.
LoadDataCatch(c) ==
    /\ ~MicrotaskPending
    /\ page = "app"
    /\ req[c].pc = "failed"
    /\ dash' = [caught |-> req[c].error.message,
                loggedOut |-> logsOut(req[c].error.message)]
    /\ store' = IF logsOut(req[c].error.message) THEN clearToken(store) ELSE store
    /\ call' = IF logsOut(req[c].error.message)
               THEN [d \in Callers |->
                       IF call[d].pc = "refreshing"
                       THEN [call[d] EXCEPT !.loggedOut = TRUE]
                       ELSE call[d]]
               ELSE call
    /\ req' = [req EXCEPT ![c] = IdleReq]
    /\ UNCHANGED <<now, page, url, authorize, cb, probe, initiate, sync>>

\* The session, the gateway and the dashboard's error handling.
NextDashboard ==
    \/ StepFor({"first"}, {"user"})
    \/ GatewayStep({"user"})
    \/ LoadDataCatch("user")

SpecDashboard == Init /\ [][NextDashboard]_vars

\* ---------------------------------------------------------------- app shell

\* The number of initiateAuth calls made in one document.
MaxInitiate == 2

\* initiateAuth up to its `await sha256(codeVerifier)`: the verifier is
\* generated, nothing is stored yet.
BeginInitiateAuth(v) ==
    /\ ~MicrotaskPending
    /\ page = "app"
    /\ v \notin initiate.pending
    /\ initiate.issued + Cardinality(initiate.pending) < MaxInitiate
    /\ initiate' = [initiate EXCEPT !.pending = @ \cup {v}]
    /\ UNCHANGED <<store, now, page, url, authorize, call, cb, req, probe, sync, dash>>

\* initiateAuth after the digest: the verifier is stored and
\* window.location.href is assigned in one run; the document lives on until
\* the navigation commits.
FinishInitiateAuth(v) ==
    /\ ~MicrotaskPending
    /\ page = "app"
    /\ v \in initiate.pending
    /\ store' = initiateStore(store, v)
    /\ authorize' = codeChallenge(v)
    /\ initiate' = [pending |-> initiate.pending \ {v}, leaving |-> TRUE,
                    issued |-> initiate.issued + 1]
    /\ UNCHANGED <<now, page, url, call, cb, req, probe, sync, dash>>

\* The navigation to the authorization page commits.
Leave ==
    /\ ~MicrotaskPending
    /\ page = "app"
    /\ initiate.leaving
    /\ page' = "spotify"
    /\ url' = NoUrl
    /\ call' = AllIdleCalls
    /\ cb' = AllIdleCbs
    /\ UNCHANGED <<store, now, authorize>>
    /\ Unload

\* A getStoredTokenSync that does not look at the expiry.
getStoredTokenSyncIgnoresExpiry(s, t) == s.access

\* getStoredTokenSync: null if the token and the expiry are stored and
\* `now >= parseInt(expirationTime)`, else the stored token (or null).
getStoredTokenSync(s, t) ==
    IF /\ s.access # NULL
       /\ s.expires # NoItem
       /\ ParseInt(s.expires) # NaN
       /\ t >= ParseInt(s.expires)
    THEN NULL
    ELSE s.access

\* A component asks for the credential synchronously.
GetStoredTokenSync ==
    /\ ~MicrotaskPending
    /\ page = "app"
    /\ sync' = [pc |-> "done", result |-> getStoredTokenSync(store, now)]
    /\ UNCHANGED <<store, now, page, url, authorize, call, cb, req, probe, initiate, dash>>

\* The session with overlapping initiateAuth calls.
NextInitiate ==
    \/ StepFor({"first"}, {"user"})
    \/ \E v \in Verifiers : BeginInitiateAuth(v)
    \/ \E v \in Verifiers : FinishInitiateAuth(v)
    \/ Leave

SpecInitiate == Init /\ [][NextInitiate]_vars

\* The session with the synchronous getter.
NextSync ==
    \/ StepFor({"first"}, {"user"})
    \/ GetStoredTokenSync

SpecSync == Init /\ [][NextSync]_vars

\* -------------------------------------------------------------- aggregation

\* The sequences over S of length at most n.
SeqsUpTo(S, n) == UNION { [1..m -> S] : m \in 0..n }

\* The genres artists are tagged with.
Genres == {"a", "b", "c"}

MaxArtists == 2
MaxGenresPerArtist == 2

\* artistsResponse.items: each artist with its list of genres.
ArtistLists ==
    SeqsUpTo([genres : SeqsUpTo(Genres, MaxGenresPerArtist)], MaxArtists)

\* The genres in the order the nested forEach visits them.
RECURSIVE Visited(_)
Visited(artists) ==
    IF artists = << >> THEN << >>
    ELSE Head(artists).genres \o Visited(Tail(artists))

\* One pass of the inner forEach on the Map, which keeps insertion order:
\* a new genre is set with count 0, then its count is incremented.
countGenre(map, genre) ==
    IF \E i \in DOMAIN map : map[i].name = genre
    THEN [i \in DOMAIN map |->
            IF map[i].name = genre THEN [map[i] EXCEPT !.count = @ + 1]
            ELSE map[i]]
    ELSE Append(map, [name |-> genre, count |-> 1])

RECURSIVE genreCount(_, _)
genreCount(visited, map) ==
    IF visited = << >> THEN map
    ELSE genreCount(Tail(visited), countGenre(map, Head(visited)))

\* A denominator that counts the distinct genres.
totalGenreOccurrencesDistinct(map) == Len(map)

\* Array.from(genreCount.values()).reduce((sum, {count}) => sum + count, 0)
RECURSIVE totalGenreOccurrences(_)
totalGenreOccurrences(map) ==
    IF map = << >> THEN 0
    ELSE Head(map).count + totalGenreOccurrences(Tail(map))

\* (count / totalGenreOccurrences) * 100, kept as the exact quotient.
percentage(count, total) == [num |-> count * 100, den |-> total]

\* Number.prototype.toFixed(1) as the genre card prints it, in tenths.
toFixed1(q) == (2 * 10 * q.num + q.den) \div (2 * q.den)

\* The comparator (a, b) => b.count - a.count is negative.
byCount(a, b) == b.count - a.count < 0

\* A comparator that looks at the track count only.
byCountOnly(a, b) == b.trackCount - a.trackCount < 0

\* The comparator of getTopAlbumsFromTracks is negative: by track count, then
\* by b.averagePopularity - a.averagePopularity.
byCountThenAverage(a, b) ==
    IF b.trackCount # a.trackCount
    THEN b.trackCount - a.trackCount < 0
    ELSE b.averagePopularity.num * a.averagePopularity.den
           < a.averagePopularity.num * b.averagePopularity.den

\* The comparator handed to sort puts a before b.
before(comparator, a, b) ==
    CASE comparator = "byCount" -> byCount(a, b)
      [] comparator = "byCountThenAverage" -> byCountThenAverage(a, b)

\* Array.prototype.sort is stable: x goes before the first entry that the
\* comparator puts after it, and after every entry it ties with.
insert(sorted, x, comparator) ==
    LET later == { i \in DOMAIN sorted : before(comparator, x, sorted[i]) }
        at == IF later = {} THEN Len(sorted) + 1
              ELSE CHOOSE i \in later : \A j \in later : i <= j
    IN  SubSeq(sorted, 1, at - 1) \o <<x>> \o SubSeq(sorted, at, Len(sorted))

sort(xs, comparator) ==
    LET sorted[n \in 0..Len(xs)] ==
            IF n = 0 THEN << >> ELSE insert(sorted[n - 1], xs[n], comparator)
    IN  sorted[Len(xs)]

\* Array.from(genreCount.entries()).map(...): one entry per genre, in the
\* order of insertion into the Map.
genreData(artists) ==
    LET map == genreCount(Visited(artists), << >>)
        total == totalGenreOccurrences(map)
    IN  [i \in DOMAIN map |->
           [name |-> map[i].name, count |-> map[i].count,
            percentage |-> percentage(map[i].count, total)]]

\* A getTopGenres whose sort leaves ties in the reverse order.
getTopGenresTiesReversed(artists) ==
    LET xs == genreData(artists)
    IN  sort([i \in DOMAIN xs |-> xs[Len(xs) + 1 - i]], "byCount")

\* getTopGenres on the artists of the response.
getTopGenres(artists) == sort(genreData(artists), "byCount")

InitGenres ==
    /\ InitSession
    /\ probe \in [in : ArtistLists, out : {<< >>}, pc : {"pending"}]

\* getTopGenres computes the distribution.
GetTopGenres ==
    /\ probe.pc = "pending"
    /\ probe' = [probe EXCEPT !.out = getTopGenres(probe.in), !.pc = "done"]
    /\ UNCHANGED <<store, now, page, url, authorize, call, cb, req, initiate, sync, dash>>

SpecGenres == InitGenres /\ [][GetTopGenres]_vars

\* The albums tracks belong to, and the popularities tracks have.
Albums == {"X", "Y"}
Popularities == {70, 90}

MaxTracks == 6
MaxLimit == 2

\* The default of the `limit` parameter.
DefaultLimit == 50

Limits == (0..MaxLimit) \cup {DefaultLimit}

\* tracksResponse.items: each track with its album id and popularity.
TrackLists == SeqsUpTo([album : Albums, popularity : Popularities], MaxTracks)

\* One pass of tracks.forEach on albumMap, which keeps insertion order.
groupTrack(map, track) ==
    IF \E i \in DOMAIN map : map[i].album = track.album
    THEN [i \in DOMAIN map |->
            IF map[i].album = track.album
            THEN [map[i] EXCEPT !.trackCount = @ + 1,
                                !.totalPopularity = @ + track.popularity]
            ELSE map[i]]
    ELSE Append(map, [album |-> track.album, trackCount |-> 1,
                      totalPopularity |-> track.popularity])

RECURSIVE albumMap(_, _)
albumMap(tracks, map) ==
    IF tracks = << >> THEN map
    ELSE albumMap(Tail(tracks), groupTrack(map, Head(tracks)))

\* item.totalPopularity / item.trackCount, kept as the exact quotient.
averagePopularity(item) == [num |-> item.totalPopularity, den |-> item.trackCount]

\* Array.prototype.slice(0, limit) for a limit that is not negative.
slice(xs, limit) == SubSeq(xs, 1, IF limit < Len(xs) THEN limit ELSE Len(xs))

\* Array.from(albumMap.values()).map(...).sort(...)
albumsArray(tracks) ==
    LET map == albumMap(tracks, << >>)
    IN  sort([i \in DOMAIN map |->
                [album |-> map[i].album, trackCount |-> map[i].trackCount,
                 averagePopularity |-> averagePopularity(map[i])]],
             "byCountThenAverage")

\* A getTopAlbumsFromTracks that cuts the tracks down to the limit first.
getTopAlbumsTruncatingFirst(tracks, limit) == albumsArray(slice(tracks, limit))

\* getTopAlbumsFromTracks on the tracks of the response.
getTopAlbumsFromTracks(tracks, limit) == slice(albumsArray(tracks), limit)

InitAlbums ==
    /\ InitSession
    /\ probe \in [in : [tracks : TrackLists, limit : Limits], out : {<< >>},
                  pc : {"pending"}]

\* getTopAlbumsFromTracks computes the ranking.
GetTopAlbumsFromTracks ==
    /\ probe.pc = "pending"
    /\ probe' = [probe EXCEPT
                   !.out = getTopAlbumsFromTracks(probe.in.tracks, probe.in.limit),
                   !.pc = "done"]
    /\ UNCHANGED <<store, now, page, url, authorize, call, cb, req, initiate, sync, dash>>

SpecAlbums == InitAlbums /\ [][GetTopAlbumsFromTracks]_vars

\* ------------------------------------------------------ challenge generator

\* The base64 alphabet in the place of `possible`.
PossibleBase64 ==
    <<"A", "B", "C", "D", "E", "F", "G", "H", "I", "J", "K", "L", "M",
      "N", "O", "P", "Q", "R", "S", "T", "U", "V", "W", "X", "Y", "Z",
      "a", "b", "c", "d", "e", "f", "g", "h", "i", "j", "k", "l", "m",
      "n", "o", "p", "q", "r", "s", "t", "u", "v", "w", "x", "y", "z",
      "0", "1", "2", "3", "4", "5", "6", "7", "8", "9", "+", "/">>

\* const possible = 'ABC...XYZabc...xyz0123456789'
Possible ==
    <<"A", "B", "C", "D", "E", "F", "G", "H", "I", "J", "K", "L", "M",
      "N", "O", "P", "Q", "R", "S", "T", "U", "V", "W", "X", "Y", "Z",
      "a", "b", "c", "d", "e", "f", "g", "h", "i", "j", "k", "l", "m",
      "n", "o", "p", "q", "r", "s", "t", "u", "v", "w", "x", "y", "z",
      "0", "1", "2", "3", "4", "5", "6", "7", "8", "9">>

\* The length initiateAuth asks generateRandomString for.
VerifierLength == 64

\* The largest element of a Uint8Array.
MaxByte == 255

MaxStride == 1

\* Outcomes of crypto.getRandomValues(new Uint8Array(length)): the byte
\* sequences that start at any byte and go up by a fixed stride, so that
\* every byte occurs at every position.
RandomValues ==
    { [i \in 1..VerifierLength |-> (first + i * stride) % (MaxByte + 1)] :
        first \in 0..MaxByte, stride \in 0..MaxStride }

\* values.reduce((acc, x) => acc + possible[x % possible.length], '')
generateRandomString(values) ==
    [i \in DOMAIN values |-> Possible[(values[i] % Len(Possible)) + 1]]

InitGenerate ==
    /\ InitSession
    /\ probe \in [in : RandomValues, out : {<< >>}, pc : {"pending"}]

\* initiateAuth generates its verifier.
GenerateRandomString ==
    /\ probe.pc = "pending"
    /\ probe' = [probe EXCEPT !.out = generateRandomString(probe.in), !.pc = "done"]
    /\ UNCHANGED <<store, now, page, url, authorize, call, cb, req, initiate, sync, dash>>

SpecGenerate == InitGenerate /\ [][GenerateRandomString]_vars

\* ---------------------------------------------------------------- scheduling

\* What the event loop guarantees: time passes, and a continuation that is
\* ready to run (handleCallback's storeToken after the exchange returned)
\* runs. Nothing makes the token endpoint answer.
Fairness ==
    /\ WF_vars(Tick)
    /\ \A k \in Callbacks : WF_vars(StoreToken(k))

NextLive == StepFor({"first"}, {"user"})

SpecLive == Init /\ [][NextLive]_vars /\ Fairness

\* ------------------------------------------------- classification, in isolation

\* The range of HTTP statuses classified.
MinStatus == 100
MaxStatus == 599

InitClassify ==
    /\ InitSession
    /\ probe \in [in : MinStatus..MaxStatus, out : {"pending"}]

\* makeSpotifyRequest classifies the status of the response.
Classify ==
    /\ probe.out = "pending"
    /\ probe' = [probe EXCEPT !.out = classify(probe.in)]
    /\ UNCHANGED <<store, now, page, url, authorize, call, cb, req, initiate, sync, dash>>

SpecClassify == InitClassify /\ [][Classify]_vars

\* ------------------------------------------------------------- vocabulary

\* No credential material is stored: access token, expiry, refresh token.
NoCredential(s) == s.access = NULL /\ s.expires = NoItem /\ s.refresh = NULL

\* The session states of the specification, read off the stored keys.
Unauthenticated(s) == NoCredential(s) /\ s.verifier = NULL

\* The refresh exchanges in flight.
Refreshing == { c \in Callers : call[c].pc = "refreshing" }

\* Caller c's getStoredToken call returns in this step.
Returns(c) == call'[c] # call[c] /\ call'[c].pc = "done"

\* Caller c calls getStoredToken in this step.
Calls(c) == call[c].pc \in {"idle", "done"} /\ call'[c] # call[c] /\ call'[c].pc # "idle"

\* The time at which the call that returns in this step was made.
CallTime(c) == IF call[c].pc = "refreshing" THEN call[c].callTime ELSE now

\* Caller c's refresh exchange ends in this step, and ends in failure.
RefreshFails(c) ==
    /\ call[c].pc = "refreshing"
    /\ call'[c].pc = "done"
    /\ call'[c].log \in {"Token refresh failed", "Token refresh error"}

\* Run k of the Callback effect executes handleCallback in this step.
Starts(k) == cb[k].pc = "idle" /\ cb'[k].pc # "idle"

\* Run k's handleCallback ended with an error of this kind, no request sent.
Rejected(r, kind) == r.pc = "failed" /\ ErrorKind(r.msg) = kind

\* ------------------------------------------------------------------- claims

\* C1: getStoredToken never returns a credential whose stored expiresAt is in
\* the past: whenever a call returns a token, the expiry then stored, if any,
\* is strictly later than the time of the call.
C1_NeverReturnsExpired ==
    [][\A c \in Callers :
         (Returns(c) /\ call'[c].result # NULL /\ store'.expires # NoItem)
            => ParseInt(store'.expires) > CallTime(c)]_vars

\* C2: a refresh response processed after logout() has completed writes no
\* credential: afterwards no access token, expiry or refresh token is stored.
C2_NoResurrection ==
    [][\A c \in Callers :
         (call[c].pc = "refreshing" /\ call[c].loggedOut /\ call'[c].pc = "done")
            => NoCredential(store')]_vars

\* C3: overlapping getStoredToken calls on an expired credential are
\* serialized: at most one refresh exchange is in flight at any time, and a
\* refresh that fails leaves alone the credential another refresh wrote while
\* it was in flight.
C3_RefreshSerialized ==
    [][/\ Cardinality({ c \in Callers : call'[c].pc = "refreshing" }) <= 1
       /\ \A c \in Callers :
            (RefreshFails(c) /\ call[c].raced) => store' = store]_vars

\* C4: whenever a refresh exchange fails (non-2xx response or network error),
\* afterwards no access token, expiry or refresh token is stored, the session
\* is Unauthenticated, the call returns absent and so would a new call.
C4_RefreshFailureClears ==
    [][\A c \in Callers :
         RefreshFails(c) =>
            /\ NoCredential(store')
            /\ Unauthenticated(store')
            /\ call'[c].result = NULL
            /\ getStoredToken(store', now').pc = "done"
            /\ getStoredToken(store', now').result = NULL]_vars

\* C4 witness: a refresh exchange has failed and the store is empty.
C4_Witness ==
    \E c \in Callers :
        /\ call[c].pc = "done"
        /\ call[c].log \in {"Token refresh failed", "Token refresh error"}
        /\ NoCredential(store)

\* C5: when getStoredToken finds the credential expired and no refresh token
\* stored, it returns absent and the expired access token and its expiry are
\* cleared.
C5_ExpiredWithoutRefreshClears ==
    [][\A c \in Callers :
         (Calls(c) /\ store.access # NULL /\ isExpired(store, now) /\ store.refresh = NULL)
            => /\ call'[c].pc = "done"
               /\ call'[c].result = NULL
               /\ store'.access = NULL
               /\ store'.expires = NoItem]_vars

\* C6: handleCallback run when no verifier is stored (and no error is
\* reported) fails with NoPendingHandshake whatever the code, and sends no
\* token exchange request.
C6_NoPendingHandshake ==
    [][\A k \in Callbacks :
         (Starts(k) /\ store.verifier = NULL /\ url.error = << >>)
            => Rejected(cb'[k], "NoPendingHandshake")]_vars

\* C7: once the token exchange has finished, accepted or rejected upstream, no
\* verifier remains stored.
C7_VerifierDiscarded ==
    [][\A k \in Callbacks :
         (cb[k].pc = "exchanging" /\ cb'[k].pc \in {"exchanged", "failed"})
            => store'.verifier = NULL]_vars

\* C8: with a handshake pending and no error reported, a code that is empty or
\* has a character outside the code alphabet is rejected with InvalidCode and
\* no token exchange request is sent.
C8_InvalidCodeRejected ==
    [][\A k \in Callbacks :
         (/\ Starts(k)
          /\ store.verifier # NULL
          /\ url.error = << >>
          /\ (url.code = << >> \/ ~InAlphabet(url.code)))
            => Rejected(cb'[k], "InvalidCode")]_vars

\* C9: the code sent in the token exchange is exactly the code parameter of
\* the redirect.
C9_CodeSentUnaltered ==
    \A k \in Callbacks :
        (page = "callback" /\ cb[k].pc = "exchanging")
            => cb[k].request.code = url.code

\* C10: when the callback reports an error, handleCallback surfaces
\* AuthorizationDenied, sends no token exchange request, and leaves the
\* session Unauthenticated: no verifier and no credential remain stored.
C10_DeniedResetsSession ==
    [][\A k \in Callbacks :
         (Starts(k) /\ sanitizeParam(url.error) # << >>)
            => /\ Rejected(cb'[k], "AuthorizationDenied")
               /\ Unauthenticated(store')]_vars

\* makeSpotifyRequest continues after caller c's getStoredToken in this step.
Attaches(c) == call[c].pc = "done" /\ call'[c].pc = "idle" /\ req'[c].pc # "idle"

\* Caller c's data request is answered in this step.
Answered(c) == req[c].pc = "fetching" /\ req'[c].pc \in {"ok", "failed"}

\* The request failed with an error of this kind.
Failed(r, kind) == r.pc = "failed" /\ GatewayKind(r.error.message) = kind

\* C11: when getStoredToken yields no credential, makeSpotifyRequest fails
\* with Unauthorized and sends no data request upstream.
C11_NoCredentialNoRequest ==
    [][\A c \in Callers :
         (Attaches(c) /\ call[c].result = NULL)
            => Failed(req'[c], "Unauthorized") /\ req'[c].sent = 0]_vars

\* C11 witness: the credential was expired, the refresh failed, and the
\* request failed without being sent.
C11_Witness ==
    \E c \in Callers :
        /\ req[c].pc = "failed"
        /\ req[c].error.message = MsgNoToken
        /\ req[c].refreshes = 1
        /\ req[c].sent = 0

\* C12: every status is classified as 401 Unauthorized, 403 Forbidden,
\* 429 RateLimited, any other non-2xx Transient, and no 2xx as an error.
C12_StatusClassification ==
    probe.out # "pending" =>
        /\ probe.in = 401 => GatewayKind(probe.out) = "Unauthorized"
        /\ probe.in = 403 => GatewayKind(probe.out) = "Forbidden"
        /\ probe.in = 429 => GatewayKind(probe.out) = "RateLimited"
        /\ (probe.in \notin 200..299 /\ probe.in \notin {401, 403, 429})
              => GatewayKind(probe.out) = "Transient"
        /\ probe.in \in 200..299 => probe.out = "none"

\* C12 witness: status 403 has been classified.
C12_Witness == probe.in = 403 /\ probe.out # "pending"

\* C13: a 2xx response whose body does not parse makes the request fail with
\* the classified error Malformed.
C13_MalformedBody ==
    \A c \in Callers :
        (/\ req[c].pc \in {"ok", "failed"}
         /\ req[c].response.status # NULL
         /\ responseOk(req[c].response.status)
         /\ req[c].response.body = "invalid")
            => Failed(req[c], "Malformed")

\* C14: the error of a 429 response that came with a retry-after value carries
\* that value and the status.
C14_RetryAfterCarried ==
    \A c \in Callers :
        (/\ req[c].pc = "failed"
         /\ req[c].response.status = 429
         /\ req[c].response.retryAfter # NULL)
            => /\ Failed(req[c], "RateLimited")
               /\ req[c].error.retryAfter = req[c].response.retryAfter
               /\ req[c].error.status = 429

\* C15: once makeSpotifyRequest has its credential it leaves every stored key
\* as it is, whatever the upstream answers.
C15_GatewayLeavesSession ==
    [][\A c \in Callers : (Attaches(c) \/ Answered(c)) => store' = store]_vars

\* C15 witness: the upstream answered 401 and the credential is still stored.
C15_Witness ==
    \E c \in Callers :
        /\ req[c].pc = "failed"
        /\ req[c].response.status = 401
        /\ store.access # NULL

\* C16: a makeSpotifyRequest call sends at most one data request, also when
\* it fails, after at most one refresh exchange.
C16_SingleAttempt ==
    \A c \in Callers :
        /\ req[c].sent <= 1
        /\ req[c].refreshes <= 1
        /\ req[c].pc = "failed" => req[c].sent <= 1

\* C16 witness: after a refresh, the single data request was sent and failed.
C16_Witness ==
    \E c \in Callers :
        /\ req[c].pc = "failed"
        /\ req[c].response.status # NULL
        /\ req[c].refreshes = 1
        /\ req[c].sent = 1

\* C17: logout is accepted in every state of the session; when it completes
\* none of the four keys is stored, the session is Unauthenticated, and a
\* second logout would change nothing.
C17_LogoutClearsAll ==
    [][Logout => /\ store' = EmptyStore
                 /\ Unauthenticated(store')
                 /\ clearToken(store') = store']_vars

\* C17 witness: logout ran while a refresh exchange was in flight and a
\* credential was stored, and no key is left.
C17_Witness ==
    /\ store = EmptyStore
    /\ \E c \in Callers : call[c].pc = "refreshing" /\ call[c].loggedOut

\* C18: an initiateAuth called while a credential is stored persists no
\* verifier and issues no authorization request.
C18_InitiateRejectedWhenAuthenticated ==
    [][\A v \in Verifiers :
         (initiateAuth(v) /\ store.access # NULL)
            => /\ store'.verifier = store.verifier
               /\ authorize' = authorize
               /\ page' = page]_vars

\* C19: the stored verifier is the one whose challenge is in the most recent
\* authorization request, also when initiateAuth calls overlap, and an
\* exchange redeems no other verifier than that one.
C19_SingleHandshake ==
    /\ store.verifier # NULL => codeChallenge(store.verifier) = authorize
    /\ \A k \in Callbacks :
         (cb[k].pc = "exchanging" /\ store.verifier # NULL)
            => cb[k].request.code_verifier = store.verifier

\* C19 witness: two overlapping initiateAuth calls have both stored their
\* verifier and assigned their authorization request.
C19_Witness ==
    /\ initiate.issued = 2
    /\ initiate.pending = {}
    /\ store.verifier # NULL

\* C20: getStoredTokenSync returns the stored access token if it is not
\* expired and null otherwise, starts no refresh exchange and leaves every
\* stored key unchanged.
C20_SyncGetter ==
    [][GetStoredTokenSync =>
         /\ sync'.result =
              IF store.access # NULL
                 /\ (store.expires = NoItem \/ now < ParseInt(store.expires))
              THEN store.access ELSE NULL
         /\ store' = store
         /\ call' = call
         /\ req' = req]_vars

\* C20 witness: the getter answered null for an expired credential that has
\* a refresh token, and no refresh exchange is in flight.
C20_Witness ==
    /\ sync.pc = "done"
    /\ sync.result = NULL
    /\ store.access # NULL
    /\ store.refresh # NULL
    /\ isExpired(store, now)
    /\ Refreshing = {}

\* C21: every getStoredToken call that starts a refresh exchange eventually
\* leaves it, also when the token endpoint never answers.
C21_RefreshCompletes ==
    \A c \in Callers : (call[c].pc = "refreshing") ~> (call[c].pc # "refreshing")

\* C22: in every state, also between exchangeCodeForToken and storeToken, a
\* stored expiry or refresh token comes with a stored access token.
C22_NoPartialCredential ==
    (store.expires # NoItem \/ store.refresh # NULL) => store.access # NULL

\* C23: after every successful exchange or refresh the stored expiry is the
\* time the response was processed plus its expires_in seconds, in
\* milliseconds, so it never stems from an earlier response.
C23_ExpiryFromResponse ==
    [][\A data \in TokenResponses :
         ((\E c \in Callers : RefreshOk(c, data))
            \/ (\E k \in Callbacks : ExchangeOk(k, data)))
            => /\ store'.expires # NoItem
               /\ ParseInt(store'.expires) = now + data.expires_in * MsPerSecond]_vars

\* The (artist, genre) pairs of the input with this genre.
PairsWith(artists, g) ==
    { ij \in (DOMAIN artists) \X (1..MaxGenresPerArtist) :
        ij[2] \in DOMAIN artists[ij[1]].genres /\ artists[ij[1]].genres[ij[2]] = g }

\* The entries of the output for this genre.
EntriesFor(out, g) == { i \in DOMAIN out : out[i].name = g }

FirstMet(artists, g) ==
    LET v == Visited(artists)
    IN  CHOOSE i \in DOMAIN v : v[i] = g /\ \A j \in 1..(i - 1) : v[j] # g

\* C25: the output is in descending order of count, and genres with the same
\* count are in the order in which the input first has them.
C25_StableDescending ==
    probe.pc = "done" =>
        \A i, j \in DOMAIN probe.out :
            i < j =>
              /\ probe.out[i].count >= probe.out[j].count
              /\ probe.out[i].count = probe.out[j].count
                   => FirstMet(probe.in, probe.out[i].name)
                        < FirstMet(probe.in, probe.out[j].name)

\* C25 witness: two genres tie in count, behind a genre with a higher count
\* that the input has last.
C25_Witness ==
    /\ probe.pc = "done"
    /\ Len(probe.out) = 3
    /\ probe.out[2].count = probe.out[3].count
    /\ probe.out[1].count > probe.out[2].count
    /\ FirstMet(probe.in, probe.out[1].name) > FirstMet(probe.in, probe.out[3].name)

\* The tracks of the input on this album.
Members(tracks, album) == { k \in DOMAIN tracks : tracks[k].album = album }

\* The sum of the popularity of the tracks at these positions.
RECURSIVE SumPopularity(_, _)
SumPopularity(tracks, ks) ==
    IF ks = {} THEN 0
    ELSE LET k == CHOOSE k \in ks : TRUE
         IN  tracks[k].popularity + SumPopularity(tracks, ks \ {k})

\* Album a has more member tracks than album b, or as many and a higher
\* average popularity.
Outranks(tracks, a, b) ==
    LET ma == Members(tracks, a)
        mb == Members(tracks, b)
    IN  \/ Cardinality(ma) > Cardinality(mb)
        \/ /\ Cardinality(ma) = Cardinality(mb)
           /\ ma # {}
           /\ SumPopularity(tracks, ma) * Cardinality(mb)
                > SumPopularity(tracks, mb) * Cardinality(ma)

\* C26: the groups are ranked by member count descending and, at equal
\* count, by average popularity descending; X three times at average 70 and Y
\* three times at average 90 puts Y first.
C26_RankByCountThenAverage ==
    probe.pc = "done" =>
        LET tracks == probe.in.tracks
            out == probe.out
        IN  /\ \A i, j \in DOMAIN out :
                 i < j => ~Outranks(tracks, out[j].album, out[i].album)
            /\ \A i \in DOMAIN out :
                 /\ out[i].trackCount = Cardinality(Members(tracks, out[i].album))
                 /\ out[i].averagePopularity.num * out[i].trackCount
                      = SumPopularity(tracks, Members(tracks, out[i].album))
                          * out[i].averagePopularity.den
            /\ (/\ Cardinality(Members(tracks, "X")) = 3
                /\ SumPopularity(tracks, Members(tracks, "X")) = 3 * 70
                /\ Cardinality(Members(tracks, "Y")) = 3
                /\ SumPopularity(tracks, Members(tracks, "Y")) = 3 * 90
                /\ probe.in.limit >= 1)
                 => out[1].album = "Y"

\* C26 witness: X came first in the input three times at 70, Y three times at
\* 90, and both are in the output.
C26_Witness ==
    /\ probe.pc = "done"
    /\ Len(probe.out) = 2
    /\ probe.in.tracks = [k \in 1..6 |->
                            IF k <= 3 THEN [album |-> "X", popularity |-> 70]
                            ELSE [album |-> "Y", popularity |-> 90]]

\* C27: the output is the first `limit` entries of the ranking of all groups
\* of all tracks: every album is there at most once, and no album left out
\* outranks one that is in.
C27_TruncatedAfterSorting ==
    probe.pc = "done" =>
        LET tracks == probe.in.tracks
            out == probe.out
            groups == { tracks[k].album : k \in DOMAIN tracks }
            kept == { out[i].album : i \in DOMAIN out }
        IN  /\ Len(out) = IF probe.in.limit < Cardinality(groups)
                          THEN probe.in.limit ELSE Cardinality(groups)
            /\ Cardinality(kept) = Len(out)
            /\ kept \subseteq groups
            /\ \A a \in groups \ kept, b \in kept : ~Outranks(tracks, a, b)
            /\ \A i \in DOMAIN out :
                 out[i].trackCount = Cardinality(Members(tracks, out[i].album))

\* C27 witness: with limit 1 the album kept is the one with more tracks, and
\* it is not the album of the first track.
C27_Witness ==
    /\ probe.pc = "done"
    /\ probe.in.limit = 1
    /\ Len(probe.out) = 1
    /\ probe.in.tracks # << >>
    /\ probe.out[1].album # probe.in.tracks[1].album

\* The unreserved characters of a URL: letters, digits, "-", ".", "_", "~".
Unreserved ==
    {"A", "B", "C", "D", "E", "F", "G", "H", "I", "J", "K", "L", "M",
     "N", "O", "P", "Q", "R", "S", "T", "U", "V", "W", "X", "Y", "Z",
     "a", "b", "c", "d", "e", "f", "g", "h", "i", "j", "k", "l", "m",
     "n", "o", "p", "q", "r", "s", "t", "u", "v", "w", "x", "y", "z",
     "0", "1", "2", "3", "4", "5", "6", "7", "8", "9", "-", ".", "_",
     "~"}

\* C28: whatever bytes are drawn, the verifier has at least 43 characters and
\* each of them is an unreserved URL character.
C28_VerifierWellFormed ==
    probe.pc = "done" =>
        /\ Len(probe.out) >= 43
        /\ \A i \in DOMAIN probe.out : probe.out[i] \in Unreserved

\* C28 witness: a verifier was generated from bytes that include the largest
\* byte, beyond the length of the alphabet.
C28_Witness ==
    /\ probe.pc = "done"
    /\ probe.in[1] = 255
    /\ probe.in[2] = 0

\* C29: when a dashboard request failed as Unauthorized, by an upstream 401
\* or for want of a credential after a failed refresh, loadData's catch runs
\* handleLogout, and no credential is stored afterwards.
C29_UnauthorizedLogsOut ==
    [][\A c \in Callers :
         (/\ LoadDataCatch(c)
          /\ \/ req[c].error.message = MsgUnauthorized
             \/ req[c].error.message = MsgNoToken /\ req[c].refreshes = 1)
            => dash'.loggedOut /\ NoCredential(store')]_vars

\* C30: a handleCallback run that starts while another run's exchange for
\* the same callback is in flight sends no second exchange request and fails
\* with NoPendingHandshake.
C30_ExchangeSerialized ==
    [][\A k \in Callbacks :
         (Starts(k) /\ \E j \in Callbacks \ {k} : cb[j].pc = "exchanging")
            => Rejected(cb'[k], "NoPendingHandshake")]_vars

====
